---- MODULE Spec2Model ----
(***************************************************************************)
(* Genotype factorized variational autoencoder                             *)
(* (notebooks/genotype_factorized_variational_autoencoder.ipynb).          *)
(*                                                                         *)
(* Three state machines over one set of variables:                         *)
(*   Spec        the notebook run: graph construction (cell 7) followed by *)
(*               the training loop (cell 8);                               *)
(*   DecoderSpec one evaluation of make_decoder and of the likelihood's    *)
(*               pairing of logits with the flattened data;                *)
(*   LossSpec    one evaluation of the loss section of the graph.          *)
(* Real-valued tensors are abstracted to small integers; shapes, indices,  *)
(* signs, sums and control flow are modelled exactly.                      *)
(***************************************************************************)
EXTENDS Integers, Sequences, FiniteSets, TLC

\* Bounds of the model.
MaxSamples == 2
MaxVariants == 2
MaxLatent == 2
MaxRecords == 3
MaxEpochs == 2

\* total_count of the Binomial likelihood: genotype dosages are 0..Ploidy.
Ploidy == 2

\* Stand-ins for the real values a row's KL divergence (>= 0) and an entry's
\* Binomial log-probability (<= 0) can take.
KLVals == {0, 1}
LogProbVals == {-1, 0}
\* Stand-ins for the real values of a latent sample's coordinates.
LatentVals == {0, 1}

\* Inputs of a decoder evaluation. The interaction is bilinear in (u, v) and
\* the reshapes only move entries, so rows range over the zero vector and the
\* scaled unit vectors, and genotype matrices over those with at most one
\* non-reference call.
LatentRows(dim) ==
    {[k \in 1..dim |-> 0]} \cup
    {[k \in 1..dim |-> IF k = d THEN c ELSE 0] : d \in 1..dim, c \in LatentVals \ {0}}
GenotypeBatches(n, m) ==
    {[i \in 1..n |-> [j \in 1..m |-> 0]]} \cup
    {[i \in 1..n |-> [j \in 1..m |-> IF i = a /\ j = b THEN g ELSE 0]] :
        a \in 1..n, b \in 1..m, g \in 1..Ploidy}

VARIABLES
    \* configuration (cell 4) and the record count of data/test.tfrecords
    N, M, D, batch_size, epochs, num_records,
    \* the notebook run
    pc, error, prior, epoch, cursor, weights, adam_t,
    tb_summary, epoch_elbo, sink, printed,
    \* history of the run: batches delivered per iterator initialization,
    \* and the epoch of every parameter update
    pulls, update_log,
    \* one decoder evaluation
    d_pc, data, u, v, z, z_flat, logits, x_flat, log_prob_terms,
    \* one loss evaluation
    l_pc, kl_u_rows, kl_v_rows, lp_entries, u_kl, v_kl, likelihood, elbo,
    merged, loss

configVars == <<N, M, D, batch_size, epochs, num_records>>
runVars == <<pc, error, prior, epoch, cursor, weights, adam_t, tb_summary,
             epoch_elbo, sink, printed, pulls, update_log>>
decVars == <<d_pc, data, u, v, z, z_flat, logits, x_flat, log_prob_terms>>
lossVars == <<l_pc, kl_u_rows, kl_v_rows, lp_entries, u_kl, v_kl, likelihood,
              elbo, merged, loss>>
vars == <<configVars, runVars, decVars, lossVars>>

Min(a, b) == IF a < b THEN a ELSE b

\* tf.reduce_sum over every entry of a vector.
RECURSIVE ReduceSum(_)
ReduceSum(s) == IF s = <<>> THEN 0 ELSE Head(s) + ReduceSum(Tail(s))

\* Row-major order of the entries of a matrix, as tf.reshape reads them.
RECURSIVE RowMajor(_)
RowMajor(rows) == IF rows = <<>> THEN <<>> ELSE Head(rows) \o RowMajor(Tail(rows))

\* Contraction of two vectors over their common axis.
Dot(a, b) == ReduceSum([d \in 1..Len(a) |-> a[d] * b[d]])

\* Variant of TensorDot with its operands exchanged: tensordot(v, u).
TensorDot_Swapped(a, b) ==
    [j \in 1..Len(b) |-> [i \in 1..Len(a) |-> Dot(b[j], a[i])]]

\* tf.tensordot(a, b, axes=[[1], [1]]): entry (i, j) contracts row i of a with
\* row j of b.
TensorDot(a, b) ==
    [i \in 1..Len(a) |-> [j \in 1..Len(b) |-> Dot(a[i], b[j])]]

\* tf.reshape(t, [1, n]) of a matrix t: defined when t has n entries.
ReshapeFlat(t, n) == IF Len(RowMajor(t)) = n THEN RowMajor(t) ELSE <<>>

----------------------------------------------------------------------------
\* Pure functions of the graph.

\* make_prior: zero location (the default), scale_diag = ones(z_dim).
MakePrior(z_dim) ==
    [u_prior |-> [loc |-> [k \in 1..z_dim |-> 0], scale |-> [k \in 1..z_dim |-> 1]],
     v_prior |-> [loc |-> [k \in 1..z_dim |-> 0], scale |-> [k \in 1..z_dim |-> 1]]]

\* Variant of Elbo with the sign of the V-KL term flipped.
Elbo_PlusVKL(ukl, vkl, lik) == (0 - ukl) + vkl + lik

\* elbo = -u_kl - v_kl + likelihood
Elbo(ukl, vkl, lik) == (0 - ukl) - vkl + lik

\* Variant of MergeAll in which the likelihood summary was never registered.
MergeAll_NoLikelihood(e, ukl, vkl, lik) ==
    << [tag |-> "elbo", value |-> e],
       [tag |-> "minus_u_kl", value |-> 0 - ukl],
       [tag |-> "minus_v_kl", value |-> 0 - vkl] >>

\* tf.summary.merge_all(): the four scalar summaries, in definition order.
MergeAll(e, ukl, vkl, lik) ==
    << [tag |-> "elbo", value |-> e],
       [tag |-> "minus_u_kl", value |-> 0 - ukl],
       [tag |-> "minus_v_kl", value |-> 0 - vkl],
       [tag |-> "likelihood", value |-> lik] >>

\* AdamOptimizer(0.001).minimize(f): the objective handed to the optimizer.
MinimizeObjective(e) == 0 - e

\* Variant of ApplyAdam in which the train op runs twice per step.
ApplyAdam_Twice(w) == w + 2

\* One in-place Adam update of the encoder's weights and biases; weights
\* counts the updates applied since initialization.
ApplyAdam(w) == w + 1

\* dataset.batch(batch_size) over num_records records, no drop_remainder.
NumBatches == (num_records + batch_size - 1) \div batch_size
BatchLen(k) == Min(batch_size, num_records - k * batch_size)

\* Variant of Initializer that leaves the iterator where it stands.
Initializer_NoRestart(c) == c

\* sess.run(iterator.initializer): the iterator restarts at batch 0.
Initializer(c) == 0

\* Variant of SummaryStep that passes the count of optimization steps.
SummaryStep_GlobalStep(e, w) == w - 1

\* The global_step handed to tb_writer.add_summary.
SummaryStep(e, w) == e

\* Static shape inference of the elementwise ops of Binomial.log_prob:
\* dimensions must be equal or one of them 1.
BroadcastOk(a, b) == a = b \/ a = 1 \/ b = 1

\* tf.reshape(data, [batch_size, num_features]) on a batch of k records.
EncoderReshapeOk(k) == k * 1 * M = batch_size * M
\* tf.reshape(data, [1, N*M]) on a batch of k records.
LikelihoodReshapeOk(k) == k * 1 * M = 1 * (N * M)
\* log_prob of the [1, N*M] data under logits of shape [1, M*batch_size].
LogProbShapesOk == BroadcastOk(N * M, M * batch_size)

StepError(k) ==
    IF ~EncoderReshapeOk(k) THEN "encoder_reshape"
    ELSE IF ~LikelihoodReshapeOk(k) THEN "likelihood_reshape"
    ELSE IF ~LogProbShapesOk THEN "log_prob"
    ELSE "none"

----------------------------------------------------------------------------
\* The notebook run.

IdleDecoder ==
    /\ d_pc = "idle" /\ data = <<>> /\ u = <<>> /\ v = <<>> /\ z = <<>>
    /\ z_flat = <<>> /\ logits = <<>> /\ x_flat = <<>> /\ log_prob_terms = <<>>

IdleLoss ==
    /\ l_pc = "idle" /\ kl_u_rows = <<>> /\ kl_v_rows = <<>> /\ lp_entries = <<>>
    /\ u_kl = 0 /\ v_kl = 0 /\ likelihood = 0 /\ elbo = 0 /\ merged = <<>>
    /\ loss = 0

IdleRun ==
    /\ pc = "idle" /\ error = "none" /\ prior = <<>> /\ epoch = -1 /\ cursor = 0
    /\ weights = -1 /\ adam_t = -1 /\ tb_summary = <<>> /\ epoch_elbo = 0
    /\ sink = <<>> /\ printed = 0 /\ pulls = <<>> /\ update_log = <<>>

Init ==
    /\ N \in 1..MaxSamples
    /\ M \in 1..MaxVariants
    /\ D \in 1..MaxLatent
    /\ batch_size \in 1..MaxSamples
    /\ epochs \in 0..MaxEpochs
    /\ num_records \in 0..MaxRecords
    /\ pc = "build" /\ error = "none" /\ prior = <<>> /\ epoch = -1 /\ cursor = 0
    /\ weights = -1 /\ adam_t = -1 /\ tb_summary = <<>> /\ epoch_elbo = 0
    /\ sink = <<>> /\ printed = 0 /\ pulls = <<>> /\ update_log = <<>>
    /\ IdleDecoder
    /\ IdleLoss

\* Cell 7 builds the graph; the shapes of the likelihood are inferred here.
BuildGraph ==
    /\ pc = "build"
    /\ LogProbShapesOk
    /\ prior' = MakePrior(D)
    /\ pc' = "init"
    /\ UNCHANGED <<error, epoch, cursor, weights, adam_t, tb_summary, epoch_elbo,
                   sink, printed, pulls, update_log>>
    /\ UNCHANGED <<configVars, decVars, lossVars>>

\* Cell 7 raises on statically incompatible shapes; cell 8 never runs.
BuildGraphFails ==
    /\ pc = "build"
    /\ ~LogProbShapesOk
    /\ error' = "log_prob"
    /\ pc' = "failed"
    /\ UNCHANGED <<prior, epoch, cursor, weights, adam_t, tb_summary, epoch_elbo,
                   sink, printed, pulls, update_log>>
    /\ UNCHANGED <<configVars, decVars, lossVars>>

\* sess.run(tf.global_variables_initializer())
GlobalVariablesInitializer ==
    /\ pc = "init"
    /\ weights' = 0
    /\ adam_t' = 0
    /\ pc' = "for"
    /\ UNCHANGED <<error, prior, epoch, cursor, tb_summary, epoch_elbo, sink,
                   printed, pulls, update_log>>
    /\ UNCHANGED <<configVars, decVars, lossVars>>

\* for epoch in range(epochs): the next epoch begins.
ForEpoch ==
    /\ pc = "for"
    /\ epoch + 1 < epochs
    /\ epoch' = epoch + 1
    /\ pc' = "initializer"
    /\ UNCHANGED <<error, prior, cursor, weights, adam_t, tb_summary, epoch_elbo,
                   sink, printed, pulls, update_log>>
    /\ UNCHANGED <<configVars, decVars, lossVars>>

\* for epoch in range(epochs): the range is exhausted, the session closes.
ForDone ==
    /\ pc = "for"
    /\ epoch + 1 >= epochs
    /\ pc' = "done"
    /\ UNCHANGED <<error, prior, epoch, cursor, weights, adam_t, tb_summary,
                   epoch_elbo, sink, printed, pulls, update_log>>
    /\ UNCHANGED <<configVars, decVars, lossVars>>

\* sess.run(iterator.initializer)
RunInitializer ==
    /\ pc = "initializer"
    /\ cursor' = Initializer(cursor)
    /\ pulls' = Append(pulls, <<>>)
    /\ pc' = "run"
    /\ UNCHANGED <<error, prior, epoch, weights, adam_t, tb_summary, epoch_elbo,
                   sink, printed, update_log>>
    /\ UNCHANGED <<configVars, decVars, lossVars>>

\* Variant of RunOutOfRange whose except clause does not leave the while loop.
RunOutOfRange_NoBreak ==
    /\ pc = "run"
    /\ cursor >= NumBatches
    /\ pc' = "run"
    /\ UNCHANGED <<error, prior, epoch, cursor, weights, adam_t, tb_summary,
                   epoch_elbo, sink, printed, pulls, update_log>>
    /\ UNCHANGED <<configVars, decVars, lossVars>>

\* Variant of RunOutOfRange in which the exhausted pull still applies an update.
RunOutOfRange_Updates ==
    /\ pc = "run"
    /\ cursor >= NumBatches
    /\ weights' = weights + 1
    /\ adam_t' = adam_t + 1
    /\ update_log' = Append(update_log, epoch)
    /\ pc' = "for"
    /\ UNCHANGED <<error, prior, epoch, cursor, tb_summary, epoch_elbo, sink,
                   printed, pulls>>
    /\ UNCHANGED <<configVars, decVars, lossVars>>

\* sess.run([optimizer, merged, elbo]) when get_next raises OutOfRangeError:
\* the except clause breaks out of the while loop.
RunOutOfRange ==
    /\ pc = "run"
    /\ cursor >= NumBatches
    /\ pc' = "for"
    /\ UNCHANGED <<error, prior, epoch, cursor, weights, adam_t, tb_summary,
                   epoch_elbo, sink, printed, pulls, update_log>>
    /\ UNCHANGED <<configVars, decVars, lossVars>>

\* Variant of RunFails in which every error is caught and ends the epoch.
RunFails_Caught ==
    /\ pc = "run"
    /\ cursor < NumBatches
    /\ StepError(BatchLen(cursor)) # "none"
    /\ cursor' = cursor + 1
    /\ pulls' = [pulls EXCEPT ![Len(pulls)] = Append(@, cursor)]
    /\ error' = StepError(BatchLen(cursor))
    /\ pc' = "for"
    /\ UNCHANGED <<prior, epoch, weights, adam_t, tb_summary, epoch_elbo, sink,
                   printed, update_log>>
    /\ UNCHANGED <<configVars, decVars, lossVars>>

\* sess.run([optimizer, merged, elbo]) on a batch whose size does not fit the
\* graph's shapes: the error is not caught and leaves the loops.
RunFails ==
    /\ pc = "run"
    /\ cursor < NumBatches
    /\ StepError(BatchLen(cursor)) # "none"
    /\ cursor' = cursor + 1
    /\ pulls' = [pulls EXCEPT ![Len(pulls)] = Append(@, cursor)]
    /\ error' = StepError(BatchLen(cursor))
    /\ pc' = "failed"
    /\ UNCHANGED <<prior, epoch, weights, adam_t, tb_summary, epoch_elbo, sink,
                   printed, update_log>>
    /\ UNCHANGED <<configVars, decVars, lossVars>>

\* sess.run([optimizer, merged, elbo]) on a well-shaped batch: forward pass,
\* one Adam update, and the fetched summary and elbo.
RunStep ==
    /\ pc = "run"
    /\ cursor < NumBatches
    /\ StepError(BatchLen(cursor)) = "none"
    /\ \E ukl \in KLVals, vkl \in KLVals, lik \in LogProbVals :
          /\ tb_summary' = MergeAll(Elbo(ukl, vkl, lik), ukl, vkl, lik)
          /\ epoch_elbo' = Elbo(ukl, vkl, lik)
    /\ cursor' = cursor + 1
    /\ pulls' = [pulls EXCEPT ![Len(pulls)] = Append(@, cursor)]
    /\ weights' = ApplyAdam(weights)
    /\ adam_t' = adam_t + 1
    /\ update_log' = Append(update_log, epoch)
    /\ pc' = "summary"
    /\ UNCHANGED <<error, prior, epoch, sink, printed>>
    /\ UNCHANGED <<configVars, decVars, lossVars>>

\* print(epoch_elbo); tb_writer.add_summary(tb_summary, epoch)
AddSummary ==
    /\ pc = "summary"
    /\ printed' = printed + 1
    /\ sink' = Append(sink, [step |-> SummaryStep(epoch, weights),
                             tags |-> [k \in 1..Len(tb_summary) |-> tb_summary[k].tag]])
    /\ pc' = "run"
    /\ UNCHANGED <<error, prior, epoch, cursor, weights, adam_t, tb_summary,
                   epoch_elbo, pulls, update_log>>
    /\ UNCHANGED <<configVars, decVars, lossVars>>

Next ==
    \/ BuildGraph
    \/ BuildGraphFails
    \/ GlobalVariablesInitializer
    \/ ForEpoch
    \/ ForDone
    \/ RunInitializer
    \/ RunOutOfRange
    \/ RunFails
    \/ RunStep
    \/ AddSummary

Spec == Init /\ [][Next]_vars

\* The notebook runs its cells to the end: every enabled step is taken.
FairSpec == Spec /\ WF_vars(Next)

----------------------------------------------------------------------------
\* One evaluation of the decoder and of the likelihood's operands, on a full
\* batch (batch_size = N): sampled u (batch_size x D), sampled v (M x D) and
\* the batch of genotypes (N x M).

DecoderInit ==
    /\ N \in 1..MaxSamples
    /\ M \in 1..MaxVariants
    /\ D \in 1..MaxLatent
    /\ batch_size = N
    /\ epochs = 0
    /\ num_records = N
    /\ IdleRun
    /\ IdleLoss
    /\ d_pc = "tensordot"
    /\ data \in GenotypeBatches(N, M)
    /\ u \in [1..batch_size -> LatentRows(D)]
    /\ v \in [1..M -> LatentRows(D)]
    /\ z = <<>> /\ z_flat = <<>> /\ logits = <<>> /\ x_flat = <<>>
    /\ log_prob_terms = <<>>

\* z = tf.tensordot(u, v, axes=[[1], [1]])
DecoderTensordot ==
    /\ d_pc = "tensordot"
    /\ z' = TensorDot(u, v)
    /\ d_pc' = "reshape"
    /\ UNCHANGED <<data, u, v, z_flat, logits, x_flat, log_prob_terms>>
    /\ UNCHANGED <<configVars, runVars, lossVars>>

\* z = tf.reshape(z, [1, num_features*batch_size])
DecoderReshape ==
    /\ d_pc = "reshape"
    /\ z_flat' = ReshapeFlat(z, M * batch_size)
    /\ d_pc' = "softplus"
    /\ UNCHANGED <<data, u, v, z, logits, x_flat, log_prob_terms>>
    /\ UNCHANGED <<configVars, runVars, lossVars>>

\* logits = tf.nn.softplus(z), elementwise; the real function is kept symbolic.
DecoderSoftplus ==
    /\ d_pc = "softplus"
    /\ logits' = [k \in 1..Len(z_flat) |-> <<"softplus", z_flat[k]>>]
    /\ d_pc' = "reshape_data"
    /\ UNCHANGED <<data, u, v, z, z_flat, x_flat, log_prob_terms>>
    /\ UNCHANGED <<configVars, runVars, lossVars>>

\* tf.reshape(data, [1, N*M])
LikelihoodReshape ==
    /\ d_pc = "reshape_data"
    /\ x_flat' = ReshapeFlat(data, N * M)
    /\ d_pc' = "log_prob"
    /\ UNCHANGED <<data, u, v, z, z_flat, logits, log_prob_terms>>
    /\ UNCHANGED <<configVars, runVars, lossVars>>

\* decoder_p.log_prob(...): the Binomial log-probabilities are computed
\* elementwise, entry k of the counts under entry k of the logits.
LikelihoodLogProb ==
    /\ d_pc = "log_prob"
    /\ log_prob_terms' =
          [k \in 1..Len(logits) |-> [logit |-> logits[k], count |-> x_flat[k],
                                     total_count |-> Ploidy]]
    /\ d_pc' = "done"
    /\ UNCHANGED <<data, u, v, z, z_flat, logits, x_flat>>
    /\ UNCHANGED <<configVars, runVars, lossVars>>

DecoderNext ==
    \/ DecoderTensordot
    \/ DecoderReshape
    \/ DecoderSoftplus
    \/ LikelihoodReshape
    \/ LikelihoodLogProb

DecoderSpec == DecoderInit /\ [][DecoderNext]_vars

----------------------------------------------------------------------------
\* One evaluation of the loss section of the graph on a full batch: the
\* per-row KL divergences and the per-entry log-probabilities are the inputs.

LossInit ==
    /\ N \in 1..MaxSamples
    /\ M \in 1..MaxVariants
    /\ D \in 1..MaxLatent
    /\ batch_size = N
    /\ epochs = 0
    /\ num_records = N
    /\ IdleRun
    /\ IdleDecoder
    /\ l_pc = "u_kl"
    /\ kl_u_rows \in [1..batch_size -> KLVals]
    /\ kl_v_rows \in [1..M -> KLVals]
    /\ lp_entries \in [1..(N * M) -> LogProbVals]
    /\ u_kl = 0 /\ v_kl = 0 /\ likelihood = 0 /\ elbo = 0 /\ merged = <<>>
    /\ loss = 0

\* u_kl = tf.reduce_sum(tfd.kl_divergence(u_encoder, u_prior))
LossUKL ==
    /\ l_pc = "u_kl"
    /\ u_kl' = ReduceSum(kl_u_rows)
    /\ l_pc' = "v_kl"
    /\ UNCHANGED <<kl_u_rows, kl_v_rows, lp_entries, v_kl, likelihood, elbo,
                   merged, loss>>
    /\ UNCHANGED <<configVars, runVars, decVars>>

\* v_kl = tf.reduce_sum(tfd.kl_divergence(v_encoder, v_prior))
LossVKL ==
    /\ l_pc = "v_kl"
    /\ v_kl' = ReduceSum(kl_v_rows)
    /\ l_pc' = "likelihood"
    /\ UNCHANGED <<kl_u_rows, kl_v_rows, lp_entries, u_kl, likelihood, elbo,
                   merged, loss>>
    /\ UNCHANGED <<configVars, runVars, decVars>>

\* likelihood = tf.reduce_sum(decoder_p.log_prob(...))
LossLikelihood ==
    /\ l_pc = "likelihood"
    /\ likelihood' = ReduceSum(lp_entries)
    /\ l_pc' = "elbo"
    /\ UNCHANGED <<kl_u_rows, kl_v_rows, lp_entries, u_kl, v_kl, elbo, merged,
                   loss>>
    /\ UNCHANGED <<configVars, runVars, decVars>>

\* elbo = -u_kl - v_kl + likelihood
LossElbo ==
    /\ l_pc = "elbo"
    /\ elbo' = Elbo(u_kl, v_kl, likelihood)
    /\ l_pc' = "summaries"
    /\ UNCHANGED <<kl_u_rows, kl_v_rows, lp_entries, u_kl, v_kl, likelihood,
                   merged, loss>>
    /\ UNCHANGED <<configVars, runVars, decVars>>

\* the four tf.summary.scalar calls, collected by tf.summary.merge_all()
LossSummaries ==
    /\ l_pc = "summaries"
    /\ merged' = MergeAll(elbo, u_kl, v_kl, likelihood)
    /\ l_pc' = "minimize"
    /\ UNCHANGED <<kl_u_rows, kl_v_rows, lp_entries, u_kl, v_kl, likelihood,
                   elbo, loss>>
    /\ UNCHANGED <<configVars, runVars, decVars>>

\* optimizer = tf.train.AdamOptimizer(0.001).minimize(-elbo)
LossMinimize ==
    /\ l_pc = "minimize"
    /\ loss' = MinimizeObjective(elbo)
    /\ l_pc' = "done"
    /\ UNCHANGED <<kl_u_rows, kl_v_rows, lp_entries, u_kl, v_kl, likelihood,
                   elbo, merged>>
    /\ UNCHANGED <<configVars, runVars, decVars>>

LossNext ==
    \/ LossUKL
    \/ LossVKL
    \/ LossLikelihood
    \/ LossElbo
    \/ LossSummaries
    \/ LossMinimize

LossSpec == LossInit /\ [][LossNext]_vars

\* Sum of f[1], ..., f[n].
RECURSIVE SumRows(_, _)
SumRows(f, n) == IF n = 0 THEN 0 ELSE f[n] + SumRows(f, n - 1)

\* C4: the ELBO is minus the U-KL summed over all N sample rows, minus the
\* V-KL summed over all M variant rows, plus the likelihood; the emitted
\* 'elbo' equals 'minus_u_kl' + 'minus_v_kl' + 'likelihood'; and the
\* optimizer minimizes exactly the negation of that ELBO.
C4_ElboIsSumOfTerms ==
    l_pc = "done" =>
        /\ elbo = (0 - SumRows(kl_u_rows, N)) - SumRows(kl_v_rows, M) + likelihood
        /\ likelihood = SumRows(lp_entries, N * M)
        /\ \E a, b, c, e \in 1..Len(merged) :
              /\ merged[e].tag = "elbo" /\ merged[a].tag = "minus_u_kl"
              /\ merged[b].tag = "minus_v_kl" /\ merged[c].tag = "likelihood"
              /\ merged[e].value = elbo
              /\ merged[e].value = merged[a].value + merged[b].value + merged[c].value
        /\ loss = 0 - elbo

C4_Witness ==
    /\ l_pc = "done" /\ N = 2 /\ M = 2
    /\ u_kl = 2 /\ v_kl = 1 /\ likelihood = -3 /\ elbo = -6 /\ loss = 6

----------------------------------------------------------------------------
\* Properties of the training loop.

SummaryTags == {"elbo", "minus_u_kl", "minus_v_kl", "likelihood"}

\* Number of entries of the sequence s equal to x.
Count(s, x) == Cardinality({k \in 1..Len(s) : s[k] = x})

\* The batch indices of a full pass over the dataset: 0, 1, ..., NumBatches-1.
FullPass == [k \in 1..NumBatches |-> k - 1]

Terminated == pc \in {"done", "failed"}

\* C1: the run always terminates, and when it ends without a failed step it
\* has made exactly `epochs` passes, each started by one iterator
\* initialization and each a full pass over the dataset; nothing ends the run
\* before or after that.
C1_TerminatesAfterEpochs ==
    /\ <>Terminated
    /\ [](pc = "done" =>
            /\ error = "none"
            /\ Len(pulls) = epochs
            /\ epoch = epochs - 1
            /\ \A e \in 1..Len(pulls) : pulls[e] = FullPass)

C1_Witness ==
    pc = "done" /\ epochs >= 2 /\ NumBatches >= 2 /\ Len(pulls) = epochs

\* C2: exhaustion of the data source ends the inner loop without an error
\* (control returns to the for statement), every epoch starts with the
\* iterator at batch 0, and every finished epoch has consumed the same
\* batches 0, 1, ... in the same order.
C2_EpochsRestartAtZero ==
    /\ [](\A e \in 1..Len(pulls) :
            /\ \A k \in 1..Len(pulls[e]) : pulls[e][k] = k - 1
            /\ (e < Len(pulls) \/ pc \in {"for", "done"}) => pulls[e] = FullPass)
    /\ [][/\ (pc = "run" /\ cursor >= NumBatches) => (pc' = "for" /\ error' = "none")
          /\ pc = "initializer" => (pc' = "run" /\ cursor' = 0)]_vars

C2_Witness ==
    /\ pc = "for" /\ Len(pulls) = 2
    /\ Len(pulls[1]) >= 2 /\ pulls[2] = pulls[1]

\* C3 (as claimed): with 1 <= batch_size < N, a dataset of N records and at
\* least one epoch, no step fails with a dimension mismatch, and every finished epoch has made
\* more than one optimization step.
C3_SmallBatchesSupported ==
    (1 <= batch_size /\ batch_size < N /\ num_records = N /\ epochs >= 1) =>
        /\ error = "none"
        /\ \A e \in 1..Len(pulls) :
              (e < Len(pulls) \/ pc \in {"for", "done"}) =>
                  Count(update_log, e - 1) > 1

\* C5: every completed optimization step is followed by exactly one emission
\* carrying each of the four scalars once; the emission comes after the
\* step's update and before the next pull, so outside the "summary" position
\* emissions, printed lines and completed steps are equal in number.
C5_OneEmissionPerStep ==
    /\ \A k \in 1..Len(sink) :
          /\ Len(sink[k].tags) = 4
          /\ \A t \in SummaryTags : Count(sink[k].tags, t) = 1
    /\ printed = Len(sink)
    /\ pc = "summary" => (/\ Len(sink) + 1 = Len(update_log)
                          /\ weights = Len(update_log)
                          /\ cursor = Len(pulls[Len(pulls)]))
    /\ pc # "summary" => Len(sink) = Len(update_log)

C5_Witness ==
    pc = "done" /\ Len(sink) >= 3 /\ Len(update_log) = Len(sink)

\* C6 (as claimed): inside the training loop nothing but the encoder's
\* weights changes from one step to the next.
C6_OnlyWeightsMutate ==
    [][(pc \in {"for", "initializer", "run", "summary"}) =>
          (UNCHANGED <<N, M, D, batch_size, epochs, prior, adam_t, cursor>>)]_vars

\* C6 (amended): each completed optimization step updates the encoder's
\* weights exactly once and nothing else changes them after initialization;
\* configuration and priors never change during training; the Adam
\* accumulators change with every completed step and the iterator's position
\* with every batch delivered and every initialization.
C6_WeightsUpdatedOncePerStep ==
    [][/\ UNCHANGED <<N, M, D, batch_size, epochs>>
       /\ pc # "build" => prior' = prior
       /\ pc # "init" =>
            /\ (pc' = "summary" /\ pc = "run") <=> weights' = weights + 1
            /\ weights' # weights => weights' = weights + 1
            /\ adam_t' - adam_t = weights' - weights
       /\ cursor' # cursor =>
            \/ pc = "run" /\ cursor < NumBatches /\ cursor' = cursor + 1
            \/ pc = "initializer" /\ cursor' = 0]_vars

C6_Witness ==
    pc = "run" /\ weights >= 2 /\ adam_t = weights /\ cursor >= 2

\* C7: once a step has failed the run is over: control is at "failed", no
\* step of the program is enabled, and the failed step has neither updated
\* the weights nor emitted anything.
C7_NoRetry ==
    error # "none" =>
        /\ pc = "failed"
        /\ ~ENABLED Next
        /\ Len(sink) = Len(update_log)
        /\ weights \in {-1, Len(update_log)}

C7_Witness ==
    /\ pc = "failed" /\ error = "encoder_reshape"
    /\ Len(sink) >= 1 /\ epoch + 1 < epochs

\* C9 (as claimed, in the reference configuration batch_size = N): in every
\* epoch the number of parameter updates equals the number of batches the
\* data source delivered.
C9_UpdatesEqualDelivered ==
    batch_size = N =>
        \A e \in 1..Len(pulls) : Count(update_log, e - 1) = Len(pulls[e])

\* C9 (amended): an exhausted pull changes neither the weights, the Adam
\* accumulators, the fetched summary nor the sink; the weights are never
\* reset after initialization; and in every epoch the number of parameter
\* updates equals the number of delivered batches whose step completed, a
\* delivered batch whose step fails being the only one without an update.
C9_ExhaustionHasNoEffect ==
    /\ [](\A e \in 1..Len(pulls) :
            Count(update_log, e - 1) =
                Len(pulls[e]) - (IF error # "none" /\ e = Len(pulls) THEN 1 ELSE 0))
    /\ [][/\ (pc = "run" /\ cursor >= NumBatches) =>
                UNCHANGED <<weights, adam_t, tb_summary, epoch_elbo, sink, printed,
                            update_log, pulls, cursor>>
          /\ weights >= 0 => weights' >= weights]_vars

C9_Witness ==
    /\ pc = "for" /\ epoch = 1 /\ Len(pulls[2]) >= 2
    /\ Count(update_log, 1) = Len(pulls[2]) /\ weights = Len(update_log)

\* C10: the step index of every emission is the epoch in which its
\* optimization step ran: it lies in [0, epochs), never decreases, and two
\* emissions carry the same index exactly when they belong to the same epoch.
C10_StepIndexIsEpoch ==
    /\ \A k \in 1..Len(sink) :
          /\ sink[k].step = update_log[k]
          /\ sink[k].step >= 0 /\ sink[k].step < epochs
    /\ \A k, l \in 1..Len(sink) :
          /\ k <= l => sink[k].step <= sink[l].step
          /\ (sink[k].step = sink[l].step) <=> (update_log[k] = update_log[l])
    /\ (\E k, l \in 1..Len(sink) : k # l /\ sink[k].step = sink[l].step)
          => NumBatches > 1

C10_Witness ==
    /\ Len(sink) >= 4 /\ sink[1].step = sink[2].step
    /\ sink[3].step = 1 /\ sink[4].step = 1

====
